---- MODULE Spec2Model ----
(***************************************************************************)
(* The calculator component of react-calculator (Calculator.jsx): the     *)
(* four pieces of React state (display, showResult, history,              *)
(* partialResult), the key handler handleButton, calculateResult,         *)
(* handleHistoryClick and the partial-result effect.                      *)
(*                                                                         *)
(* A JavaScript string is a sequence of one-character strings, so that    *)
(* slice, endsWith, concatenation and split act on characters as they do  *)
(* in the code.                                                            *)
(***************************************************************************)
EXTENDS Integers, Sequences, FiniteSets, TLC

VARIABLES display, showResult, history, partialResult,
          events, lastEvent, before, finalized, keylog

vars == <<display, showResult, history, partialResult,
          events, lastEvent, before, finalized, keylog>>

(***************************************************************************)
(* Bounds of the model.                                                    *)
(***************************************************************************)
\* a run holds at most this many events (key presses and history clicks)
MaxEvents == 5
\* the key log of the key-press runs without "=" holds at most this many keys
MaxKeys == 4

(***************************************************************************)
(* Characters.                                                             *)
(***************************************************************************)
Digits == {"0", "1", "2", "3", "4", "5", "6", "7", "8", "9"}

DigitVal(c) ==
  CASE c = "0" -> 0 [] c = "1" -> 1 [] c = "2" -> 2 [] c = "3" -> 3
    [] c = "4" -> 4 [] c = "5" -> 5 [] c = "6" -> 6 [] c = "7" -> 7
    [] c = "8" -> 8 [] c = "9" -> 9

DigitChar(n) ==
  CASE n = 0 -> "0" [] n = 1 -> "1" [] n = 2 -> "2" [] n = 3 -> "3"
    [] n = 4 -> "4" [] n = 5 -> "5" [] n = 6 -> "6" [] n = 7 -> "7"
    [] n = 8 -> "8" [] n = 9 -> "9"

\* the characters mathjs lets a symbol name start with
Alpha ==
  {"a", "b", "c", "d", "e", "f", "g", "h", "i", "j", "k", "l", "m",
   "n", "o", "p", "q", "r", "s", "t", "u", "v", "w", "x", "y", "z",
   "A", "B", "C", "D", "E", "F", "G", "H", "I", "J", "K", "L", "M",
   "N", "O", "P", "Q", "R", "S", "T", "U", "V", "W", "X", "Y", "Z",
   "_", "$"}

Abs(n) == IF n < 0 THEN -n ELSE n

RECURSIVE GCD(_, _)
GCD(a, b) == IF b = 0 THEN a ELSE GCD(b, a % b)

(***************************************************************************)
(* JavaScript numbers, as far as the calculator can tell them apart: a    *)
(* finite value is an exact fraction n/d in lowest terms, beside NaN,     *)
(* Infinity and -Infinity.  NoNumber stands for an evaluation that gives  *)
(* no number: mathjs throws, or returns a value without toFixed.          *)
(***************************************************************************)
NoNumber == [k |-> "none", n |-> 0, d |-> 1]
NaN == [k |-> "nan", n |-> 0, d |-> 1]
PosInf == [k |-> "inf", n |-> 1, d |-> 1]
NegInf == [k |-> "inf", n |-> -1, d |-> 1]

Num(n, d) ==
  LET g == GCD(Abs(n), d)
  IN  [k |-> "num", n |-> n \div g, d |-> d \div g]

Sign(a) == IF a.n > 0 THEN 1 ELSE IF a.n < 0 THEN -1 ELSE 0

Neg(a) ==
  IF a.k \in {"none", "nan"} THEN a ELSE [a EXCEPT !.n = -(a.n)]

Add(a, b) ==
  IF a.k = "none" \/ b.k = "none" THEN NoNumber
  ELSE IF a.k = "nan" \/ b.k = "nan" THEN NaN
  ELSE IF a.k = "inf" /\ b.k = "inf" THEN (IF a.n = b.n THEN a ELSE NaN)
  ELSE IF a.k = "inf" THEN a
  ELSE IF b.k = "inf" THEN b
  ELSE Num(a.n * b.d + b.n * a.d, a.d * b.d)

Mul(a, b) ==
  IF a.k = "none" \/ b.k = "none" THEN NoNumber
  ELSE IF a.k = "nan" \/ b.k = "nan" THEN NaN
  ELSE IF a.k = "inf" \/ b.k = "inf"
       THEN (IF Sign(a) * Sign(b) = 0 THEN NaN
             ELSE IF Sign(a) * Sign(b) > 0 THEN PosInf ELSE NegInf)
  ELSE Num(a.n * b.n, a.d * b.d)

\* the divisors the keypad can build are never negative zero, so x/0 has
\* the sign of x
Div(a, b) ==
  IF a.k = "none" \/ b.k = "none" THEN NoNumber
  ELSE IF a.k = "nan" \/ b.k = "nan" THEN NaN
  ELSE IF a.k = "inf" /\ b.k = "inf" THEN NaN
  ELSE IF a.k = "inf"
       THEN (IF Sign(a) * Sign(b) < 0 THEN NegInf ELSE PosInf)
  ELSE IF b.k = "inf" THEN Num(0, 1)
  ELSE IF b.n = 0
       THEN (IF a.n = 0 THEN NaN ELSE IF a.n > 0 THEN PosInf ELSE NegInf)
  ELSE IF b.n > 0 THEN Num(a.n * b.d, a.d * b.n)
  ELSE Num(-(a.n * b.d), a.d * (-(b.n)))

(***************************************************************************)
(* evaluate of mathjs, on the strings a display can hold.  The model's    *)
(* keypad has no ")" and no "%" key (see Keys), so a "(" is never closed  *)
(* and mathjs rejects every expression that holds one; a symbol followed  *)
(* by "(" is a call that is never closed.  Of the names the letters of    *)
(* the keypad, of "Error", "NaN" and "Infinity" can spell, mathjs gives a *)
(* number for E, NaN and Infinity only; any other name is undefined       *)
(* (evaluate throws) or is a function or a unit (toFixed throws).  E is   *)
(* held to six decimals.  The grammar follows mathjs's parser from        *)
(* parseAddSubtract down; its rule for "number / number symbol" only      *)
(* regroups products with a symbol, which give no number either way.      *)
(***************************************************************************)
Fail == [v |-> NoNumber, p |-> 0, t |-> "none"]

Failed(r) == r.v.k = "none"

CharAt(s, i) == IF i >= 1 /\ i <= Len(s) THEN s[i] ELSE ""

RECURSIVE DigitsEnd(_, _)
\* the first position from i on that holds no digit
DigitsEnd(s, i) ==
  IF CharAt(s, i) \in Digits THEN DigitsEnd(s, i + 1) ELSE i

RECURSIVE DigitsValue(_, _, _)
\* the value of the digits s[i .. j-1]
DigitsValue(s, i, j) ==
  IF j <= i THEN 0 ELSE DigitsValue(s, i, j - 1) * 10 + DigitVal(s[j - 1])

RECURSIVE Pow10(_)
Pow10(k) == IF k <= 0 THEN 1 ELSE 10 * Pow10(k - 1)

\* a "." after the integer part belongs to the number unless the next
\* character makes it the operator "./", ".*" or ".^"
IsDecimalMark(s, i) ==
  CharAt(s, i) = "." /\ CharAt(s, i + 1) \notin {"/", "*", "^"}

\* does a number token start at i: a digit, or a "." followed by a digit
IsNumberStart(s, i) ==
  \/ CharAt(s, i) \in Digits
  \/ CharAt(s, i) = "." /\ CharAt(s, i + 1) \in Digits

\* a mantissa m scaled by the power of ten x
Scaled(m, negative, x) ==
  IF negative THEN Div(m, Num(x, 1)) ELSE Mul(m, Num(x, 1))

\* the exponent digits s[b .. j-1] of a number with mantissa m: mathjs
\* wants a digit after "e" and no decimal mark after the exponent
ExponentDigits(s, m, negative, b, j) ==
  IF j = b \/ IsDecimalMark(s, j) THEN Fail
  ELSE [v |-> Scaled(m, negative, Pow10(DigitsValue(s, b, j))),
        p |-> j, t |-> "const"]

\* the exponent part "e[+-]digits" of a number whose mantissa m ends at e
Exponent(s, m, e) ==
  IF CharAt(s, e) \in {"e", "E"} /\ CharAt(s, e + 1) \in Digits
  THEN ExponentDigits(s, m, FALSE, e + 1, DigitsEnd(s, e + 1))
  ELSE IF CharAt(s, e) \in {"e", "E"} /\ CharAt(s, e + 1) \in {"+", "-"}
  THEN ExponentDigits(s, m, CharAt(s, e + 1) = "-", e + 2, DigitsEnd(s, e + 2))
  ELSE IF CharAt(s, e) \in {"e", "E"} /\ CharAt(s, e + 1) = "." THEN Fail
  ELSE [v |-> m, p |-> e, t |-> "const"]

\* the number ".ddd" at i, its digits ending at j
FractionOnly(s, i, j) ==
  IF j = i + 1 THEN Fail
  ELSE Exponent(s, Num(DigitsValue(s, i + 1, j), Pow10(j - i - 1)), j)

\* the number "ddd.ddd" at i, its "." at j and its decimals ending at e
WithDecimals(s, i, j, e) ==
  Exponent(s,
           Num(DigitsValue(s, i, j) * Pow10(e - j - 1) + DigitsValue(s, j + 1, e),
               Pow10(e - j - 1)),
           e)

\* the number at i whose integer part ends at j
IntegerPart(s, i, j) ==
  IF IsDecimalMark(s, j) THEN WithDecimals(s, i, j, DigitsEnd(s, j + 1))
  ELSE Exponent(s, Num(DigitsValue(s, i, j), 1), j)

\* the number token at i, where s[i] is a digit or "."
ReadNumber(s, i) ==
  IF s[i] = "." THEN FractionOnly(s, i, DigitsEnd(s, i + 1))
  ELSE IntegerPart(s, i, DigitsEnd(s, i))

RECURSIVE NameEnd(_, _)
\* the first position from i on that holds neither a letter nor a digit
NameEnd(s, i) ==
  IF CharAt(s, i) \in Alpha \cup Digits THEN NameEnd(s, i + 1) ELSE i

SymbolValue(name) ==
  CASE name = <<"E">> -> Num(2718282, 1000000)
    [] name = <<"N", "a", "N">> -> NaN
    [] name = <<"I", "n", "f", "i", "n", "i", "t", "y">> -> PosInf
    [] OTHER -> NoNumber

\* the symbol of value v that ends at j: a "(" after it opens a call that
\* nothing closes, a lone "." after it is a property access
SymbolAt(s, j, v) ==
  IF v.k = "none" \/ CharAt(s, j) = "("
     \/ (CharAt(s, j) = "." /\ ~IsNumberStart(s, j))
  THEN Fail
  ELSE [v |-> v, p |-> j, t |-> "symbol"]

SymbolNamed(s, i, j) == SymbolAt(s, j, SymbolValue(SubSeq(s, i, j - 1)))

\* the symbol at i, where s[i] is a letter
ReadSymbol(s, i) == SymbolNamed(s, i, NameEnd(s, i))

\* a "(" opens a group that nothing closes; anything else is unexpected
Primary(s, i) ==
  IF CharAt(s, i) \in Digits \cup {"."} THEN ReadNumber(s, i)
  ELSE IF CharAt(s, i) \in Alpha THEN ReadSymbol(s, i)
  ELSE Fail

\* the operand r under the unary sign c
Signed(c, r) ==
  IF Failed(r) THEN Fail
  ELSE [v |-> IF c = "-" THEN Neg(r.v) ELSE r.v, p |-> r.p, t |-> "operator"]

RECURSIVE Unary(_, _)
Unary(s, i) ==
  IF CharAt(s, i) \in {"-", "+"} THEN Signed(s[i], Unary(s, i + 1))
  ELSE Primary(s, i)

\* the node of a binary operation on acc and r; it fails when r does
Binary(v, r) ==
  IF Failed(r) THEN Fail ELSE [v |-> v, p |-> r.p, t |-> r.t]

RECURSIVE ImplicitLoop(_, _)
ImplicitTimes(s, acc, r) == ImplicitLoop(s, Binary(Mul(acc.v, r.v), r))

\* implicit multiplication: a symbol or "(" after any operand, a number
\* after an operand that is neither a constant nor an operator node; a
\* failed operand ends every loop, as nothing is read at position 0
ImplicitLoop(s, acc) ==
  IF \/ CharAt(s, acc.p) \in Alpha \cup {"("}
     \/ IsNumberStart(s, acc.p) /\ acc.t \notin {"const", "operator"}
  THEN ImplicitTimes(s, acc, Unary(s, acc.p))
  ELSE acc

Implicit(s, i) == ImplicitLoop(s, Unary(s, i))

\* where the operator after position p stands: "./" and ".*" are the
\* operators "/" and "*" on numbers
OperatorAt(s, p) ==
  IF CharAt(s, p) = "." /\ CharAt(s, p + 1) \in {"*", "/"} THEN p + 1 ELSE p

OperatorNode(r) == IF Failed(r) THEN Fail ELSE [r EXCEPT !.t = "operator"]

RECURSIVE MulDivLoop(_, _)
MulDivStep(s, acc, c, r) ==
  MulDivLoop(s, OperatorNode(
                  Binary(IF c = "*" THEN Mul(acc.v, r.v) ELSE Div(acc.v, r.v), r)))

MulDivAt(s, acc, at) ==
  IF CharAt(s, at) \in {"*", "/"}
  THEN MulDivStep(s, acc, s[at], Implicit(s, at + 1))
  ELSE acc

MulDivLoop(s, acc) == MulDivAt(s, acc, OperatorAt(s, acc.p))

MulDiv(s, i) == MulDivLoop(s, Implicit(s, i))

RECURSIVE AddSubLoop(_, _)
AddSubStep(s, acc, c, r) ==
  AddSubLoop(s, OperatorNode(
                  Binary(IF c = "+" THEN Add(acc.v, r.v)
                         ELSE Add(acc.v, Neg(r.v)), r)))

AddSubLoop(s, acc) ==
  IF CharAt(s, acc.p) \in {"+", "-"}
  THEN AddSubStep(s, acc, s[acc.p], MulDiv(s, acc.p + 1))
  ELSE acc

AddSub(s, i) == AddSubLoop(s, MulDiv(s, i))

\* the value of a parse r of s: the input must be consumed to its end
Whole(s, r) ==
  IF Failed(r) \/ r.p # Len(s) + 1 THEN NoNumber ELSE r.v

\* evaluate(display): the number, or NoNumber when the parse fails, the
\* input is not consumed to its end, or the value is no number
evaluate(s) == Whole(s, AddSub(s, 1))

(***************************************************************************)
(* parseFloat(result.toFixed(3)).toString(): the value rounded to         *)
(* thousandths (half away from zero), written without trailing zeros.     *)
(* toFixed rounds the binary value of the double, which differs from the  *)
(* fraction only when the fraction lies exactly halfway between two       *)
(* thousandths; no expression within the bounds has such a value.  The    *)
(* exponent form toString gives from 1e21 on is out of their reach too.   *)
(***************************************************************************)
\* toFixed(3) cutting the further decimals off instead of rounding
Thousandths_truncates(v) ==
  LET q == (Abs(v.n) * 1000) \div v.d
  IN  IF v.n < 0 THEN -q ELSE q

Thousandths(v) ==
  LET a == Abs(v.n) * 1000
      q == a \div v.d
      r == a % v.d
      m == IF 2 * r >= v.d THEN q + 1 ELSE q
  IN  IF v.n < 0 THEN -m ELSE m

RECURSIVE NatChars(_)
NatChars(n) ==
  IF n < 10 THEN <<DigitChar(n)>>
  ELSE Append(NatChars(n \div 10), DigitChar(n % 10))

\* the decimals of f thousandths (0 < f < 1000), trailing zeros dropped
FractionChars(f) ==
  IF f % 100 = 0 THEN <<DigitChar(f \div 100)>>
  ELSE IF f % 10 = 0 THEN <<DigitChar(f \div 100), DigitChar((f \div 10) % 10)>>
  ELSE <<DigitChar(f \div 100), DigitChar((f \div 10) % 10), DigitChar(f % 10)>>

ThousandthsString(t) ==
  LET m == Abs(t)
      whole == NatChars(m \div 1000)
      body == IF m % 1000 = 0 THEN whole
              ELSE whole \o <<".">> \o FractionChars(m % 1000)
  IN  IF t < 0 THEN <<"-">> \o body ELSE body

\* the string of a number v (v is not NoNumber)
resultString(v) ==
  CASE v.k = "nan" -> <<"N", "a", "N">>
    [] v.k = "inf" /\ v.n > 0 -> <<"I", "n", "f", "i", "n", "i", "t", "y">>
    [] v.k = "inf" /\ v.n < 0 -> <<"-", "I", "n", "f", "i", "n", "i", "t", "y">>
    [] OTHER -> ThousandthsString(Thousandths(v))

(***************************************************************************)
(* The keypad.  The labels come from the keys table the component         *)
(* imports; the model presses the labels below, one of every class        *)
(* handleButton tells apart but the closing parenthesis and the functions *)
(* it shares a branch with.  The label of the square-root key is written  *)
(* "sqrt" here.                                                            *)
(***************************************************************************)
Keys == {"AC", "C", "=", "sin", "(", "+", "-", "/", ".", "0", "1", "3"}

\* the characters of a key label
LabelChars(value) ==
  CASE value = "sin" -> <<"s", "i", "n">>
    [] value = "cos" -> <<"c", "o", "s">>
    [] value = "tan" -> <<"t", "a", "n">>
    [] value = "AC" -> <<"A", "C">>
    [] value = "sqrt" -> <<"s", "q", "r", "t">>
    [] OTHER -> <<value>>

\* display.slice(1): the first character removed instead of the last
slice_first(s) == IF s = <<>> THEN <<>> ELSE SubSeq(s, 2, Len(s))

\* display.slice(0, -1)
slice(s) == IF s = <<>> THEN <<>> ELSE SubSeq(s, 1, Len(s) - 1)

\* display.slice(-1): the last character, "" for the empty string
lastChar(s) == IF s = <<>> THEN "" ELSE s[Len(s)]

\* display.endsWith(c)
endsWith(s, c) == s # <<>> /\ s[Len(s)] = c

\* isOperator without the minus sign
isOperator_noMinus(value) == value \in {"%", "*", "/", "+"}

isOperator(value) == value \in {"%", "*", "/", "-", "+"}

\* does handleButton return without setting display (the two bare returns)
\* the operator branch without its display === "" test
rejects_noEmptyCheck(value, d) ==
  \/ isOperator(value) /\ d # <<>> /\ isOperator(lastChar(d))
  \/ value = "." /\ endsWith(d, ".")

rejects(value, d) ==
  \/ isOperator(value) /\ (d = <<>> \/ isOperator(lastChar(d)))
  \/ value = "." /\ endsWith(d, ".")

\* what a key other than AC, C and = appends when it is not rejected
appended(value) ==
  IF value = "sqrt" THEN <<"s", "q", "r", "t", "(">>
  ELSE IF value \in {"sin", "cos", "tan"} THEN LabelChars(value) \o <<"(">>
  ELSE LabelChars(value)

\* the history line of a calculation: display + " = " + result
\* the history line written without the spaces around "="
historyItem_noSpaces(d, r) == d \o <<"=">> \o r

historyItem(d, r) == d \o <<" ", "=", " ">> \o r

\* the success branch of calculateResult: r is the result's string
finalized_state(d, h, r) ==
  [display |-> r, showResult |-> TRUE, history |-> Append(h, historyItem(d, r))]

\* the catch branch of calculateResult
error_state(h) ==
  [display |-> <<"E", "r", "r", "o", "r">>, showResult |-> FALSE, history |-> h]

\* the try block of calculateResult on the evaluation result
tryResult(d, h, result) ==
  IF result.k # "none" THEN finalized_state(d, h, resultString(result))
  ELSE error_state(h)

\* the try block without its setHistory
tryResult_noHistory(d, h, result) ==
  IF result.k # "none"
  THEN [finalized_state(d, h, resultString(result)) EXCEPT !.history = h]
  ELSE error_state(h)

\* the try block with setShowResult(true) moved behind it
tryResult_showsError(d, h, result) ==
  IF result.k # "none" THEN finalized_state(d, h, resultString(result))
  ELSE [error_state(h) EXCEPT !.showResult = TRUE]

\* calculateResult that shows the result but never writes the history
calculateResult_noHistory(d, h) ==
  IF Len(d) # 0 THEN tryResult_noHistory(d, h, evaluate(d))
  ELSE [display |-> d, showResult |-> FALSE, history |-> h]

\* calculateResult whose setShowResult(true) follows the try block
calculateResult_showsError(d, h) ==
  IF Len(d) # 0 THEN tryResult_showsError(d, h, evaluate(d))
  ELSE [display |-> d, showResult |-> FALSE, history |-> h]

\* calculateResult without its check for an empty display
calculateResult_noEmptyCheck(d, h) == tryResult(d, h, evaluate(d))

\* calculateResult: the state it leaves, given that handleButton has
\* already asked for showResult = false
calculateResult(d, h) ==
  IF Len(d) # 0 THEN tryResult(d, h, evaluate(d))
  ELSE [display |-> d, showResult |-> FALSE, history |-> h]

\* handleButton without the check for a repeated decimal point
handleButton_noPointCheck(value, d, h) ==
  IF value = "AC" THEN [display |-> <<>>, showResult |-> FALSE, history |-> h]
  ELSE IF value = "C"
       THEN [display |-> slice(d), showResult |-> FALSE, history |-> h]
  ELSE IF value = "=" THEN calculateResult(d, h)
  ELSE IF isOperator(value) /\ (d = <<>> \/ isOperator(lastChar(d)))
       THEN [display |-> d, showResult |-> FALSE, history |-> h]
  ELSE [display |-> d \o appended(value), showResult |-> FALSE, history |-> h]

\* a state st with showResult as it was unless st asks for true
keepShown(st) == [st EXCEPT !.showResult = showResult \/ st.showResult]

\* handleButton without its first line, setShowResult(false)
handleButton_noReset(value, d, h) ==
  IF value = "AC" THEN [display |-> <<>>, showResult |-> showResult, history |-> h]
  ELSE IF value = "C"
       THEN [display |-> slice(d), showResult |-> showResult, history |-> h]
  ELSE IF value = "=" THEN keepShown(calculateResult(d, h))
  ELSE IF rejects(value, d)
       THEN [display |-> d, showResult |-> showResult, history |-> h]
  ELSE [display |-> d \o appended(value), showResult |-> showResult,
        history |-> h]

\* handleButton whose AC clears the history with the display
handleButton_acClearsHistory(value, d, h) ==
  IF value = "AC"
  THEN [display |-> <<>>, showResult |-> FALSE, history |-> <<>>]
  ELSE IF value = "C"
       THEN [display |-> slice(d), showResult |-> FALSE, history |-> h]
  ELSE IF value = "=" THEN calculateResult(d, h)
  ELSE IF rejects(value, d)
       THEN [display |-> d, showResult |-> FALSE, history |-> h]
  ELSE [display |-> d \o appended(value), showResult |-> FALSE, history |-> h]

\* handleButton whose AC branch removes one character, as C does
handleButton_acAsC(value, d, h) ==
  IF value \in {"AC", "C"}
  THEN [display |-> slice(d), showResult |-> FALSE, history |-> h]
  ELSE IF value = "=" THEN calculateResult(d, h)
  ELSE IF rejects(value, d)
       THEN [display |-> d, showResult |-> FALSE, history |-> h]
  ELSE [display |-> d \o appended(value), showResult |-> FALSE, history |-> h]

\* handleButton(value): the state the handler leaves
\* the text a key continues from, were "Error" discarded by the next key
withoutError(d) == IF d = <<"E", "r", "r", "o", "r">> THEN <<>> ELSE d

\* handleButton starting a new expression when display is "Error"
handleButton_clearsError(value, d, h) ==
  IF value = "AC" THEN [display |-> <<>>, showResult |-> FALSE, history |-> h]
  ELSE IF value = "C"
       THEN [display |-> slice(d), showResult |-> FALSE, history |-> h]
  ELSE IF value = "=" THEN calculateResult(d, h)
  ELSE IF rejects(value, withoutError(d))
       THEN [display |-> d, showResult |-> FALSE, history |-> h]
  ELSE [display |-> withoutError(d) \o appended(value),
        showResult |-> FALSE, history |-> h]

\* the text a key continues from, were a shown result discarded by the
\* next key
freshAfterResult(d) == IF showResult THEN <<>> ELSE d

\* handleButton starting a new expression when a result is shown
handleButton_startsFresh(value, d, h) ==
  IF value = "AC" THEN [display |-> <<>>, showResult |-> FALSE, history |-> h]
  ELSE IF value = "C"
       THEN [display |-> slice(d), showResult |-> FALSE, history |-> h]
  ELSE IF value = "=" THEN calculateResult(d, h)
  ELSE IF rejects(value, freshAfterResult(d))
       THEN [display |-> d, showResult |-> FALSE, history |-> h]
  ELSE [display |-> freshAfterResult(d) \o appended(value),
        showResult |-> FALSE, history |-> h]

handleButton(value, d, h) ==
  IF value = "AC" THEN [display |-> <<>>, showResult |-> FALSE, history |-> h]
  ELSE IF value = "C"
       THEN [display |-> slice(d), showResult |-> FALSE, history |-> h]
  ELSE IF value = "=" THEN calculateResult(d, h)
  ELSE IF rejects(value, d)
       THEN [display |-> d, showResult |-> FALSE, history |-> h]
  ELSE [display |-> d \o appended(value), showResult |-> FALSE, history |-> h]

RECURSIVE IndexOfSeparator(_, _)
\* the first position from i on where " = " starts in item, 0 if none
IndexOfSeparator(item, i) ==
  IF i + 2 > Len(item) THEN 0
  ELSE IF SubSeq(item, i, i + 2) = <<" ", "=", " ">> THEN i
  ELSE IndexOfSeparator(item, i + 1)

\* item.split("=")[0]: the separator without its spaces
splitFirst_noSpaces(item) ==
  LET i == IndexOfSeparator(item, 1)
  IN  IF i = 0 THEN item ELSE SubSeq(item, 1, i)

\* item.split(" = ")[0]
splitFirst(item) ==
  LET i == IndexOfSeparator(item, 1)
  IN  IF i = 0 THEN item ELSE SubSeq(item, 1, i - 1)

\* handleHistoryClick(item)
\* handleHistoryClick without setShowResult(false)
handleHistoryClick_keepsResult(item, h) ==
  [display |-> splitFirst(item), showResult |-> showResult, history |-> h]

handleHistoryClick(item, h) ==
  [display |-> splitFirst(item), showResult |-> FALSE, history |-> h]

\* the effect whose catch leaves the partial result as it was
preview_keepsOld(result) ==
  IF result.k # "none" THEN resultString(result) ELSE partialResult

\* the try block of the effect on the evaluation result
preview(result) ==
  IF result.k # "none" THEN resultString(result) ELSE <<>>

\* the body of the partial-result effect: the value it sets
partialEffect(d, sr) ==
  IF d = <<>> \/ sr THEN <<>> ELSE preview(evaluate(d))

\* the effect with [display] as its dependencies
afterRender_displayOnly(d, sr) ==
  IF d # display THEN partialEffect(d, sr) ELSE partialResult

\* the effect runs after a render in which display or showResult changed
afterRender(d, sr) ==
  IF <<d, sr>> # <<display, showResult>> THEN partialEffect(d, sr)
  ELSE partialResult

(***************************************************************************)
(* The state machine.  events counts the events of the run.  lastEvent    *)
(* (the last event), before (display and showResult when it arrived),     *)
(* finalized (the display of every calculation that reached the history)  *)
(* and keylog (the keys a run without "=" pressed that were not rejected) *)
(* record what happened and are read by no handler.                       *)
(***************************************************************************)
NoEvent == [kind |-> "none", key |-> "", index |-> 0]

Init ==
  /\ display = <<>>
  /\ showResult = FALSE
  /\ history = <<>>
  /\ partialResult = <<>>
  /\ events = 0
  /\ lastEvent = NoEvent
  /\ before = [display |-> <<>>, showResult |-> FALSE]
  /\ finalized = <<>>
  /\ keylog = <<>>

\* the render that follows a handler which left the state st
Commit(st) ==
  /\ display' = st.display
  /\ showResult' = st.showResult
  /\ history' = st.history
  /\ partialResult' = afterRender(st.display, st.showResult)
  /\ before' = [display |-> display, showResult |-> showResult]
  /\ finalized' = IF Len(st.history) > Len(history)
                  THEN Append(finalized, display) ELSE finalized

\* a click on a key of the keypad
Press(value) ==
  /\ events < MaxEvents
  /\ events' = events + 1
  /\ Commit(handleButton(value, display, history))
  /\ lastEvent' = [kind |-> "key", key |-> value, index |-> 0]
  /\ UNCHANGED keylog

\* a click on the i-th line of the history panel
Select(i) ==
  /\ events < MaxEvents
  /\ events' = events + 1
  /\ Commit(handleHistoryClick(history[i], history))
  /\ lastEvent' = [kind |-> "select", key |-> "", index |-> i]
  /\ UNCHANGED keylog

\* a click on a key in a run that never presses "=", its keys logged
PressLogged(value) ==
  /\ events < MaxKeys
  /\ events' = events + 1
  /\ Commit(handleButton(value, display, history))
  /\ lastEvent' = [kind |-> "key", key |-> value, index |-> 0]
  /\ keylog' = IF rejects(value, display) THEN keylog
               ELSE Append(keylog, value)

PressKey == \E value \in Keys : Press(value)

SelectItem == \E i \in 1..Len(history) : Select(i)

Next == PressKey \/ SelectItem

Spec == Init /\ [][Next]_vars

\* the runs of key presses that never include "="
NextKeys == \E value \in Keys \ {"="} : PressLogged(value)

SpecKeys == Init /\ [][NextKeys]_vars

(***************************************************************************)
(* Vocabulary of the properties.                                           *)
(***************************************************************************)
\* this step is a press of key k
KeyStep(k) ==
  /\ events' = events + 1
  /\ lastEvent' = [kind |-> "key", key |-> k, index |-> 0]

\* this step is a press of some key
AnyKeyStep == events' = events + 1 /\ lastEvent'.kind = "key"

\* this step is a click on the i-th history line
SelectStep(i) ==
  /\ events' = events + 1
  /\ lastEvent' = [kind |-> "select", key |-> "", index |-> i]

\* the last event was a press of key k
Pressed(k) == lastEvent = [kind |-> "key", key |-> k, index |-> 0]

\* the evaluator accepts e: it gives a number
Accepts(e) == evaluate(e).k # "none"

\* the evaluator's result on e, rounded to 3 decimals, as a string
Rounded(e) == resultString(evaluate(e))

ErrorText == <<"E", "r", "r", "o", "r">>

BinaryOperators == {"%", "*", "/", "-", "+"}

StartsWithOperator(e) == e # <<>> /\ e[1] \in BinaryOperators

ConsecutiveOperators(e) ==
  \E i \in 1..(Len(e) - 1) :
    e[i] \in BinaryOperators /\ e[i + 1] \in BinaryOperators

ConsecutivePoints(e) ==
  \E i \in 1..(Len(e) - 1) : e[i] = "." /\ e[i + 1] = "."

\* the result part of a history line: what follows its first " = "
ResultOf(item) ==
  SubSeq(item, IndexOfSeparator(item, 1) + 3, Len(item))


(***************************************************************************)
(* Properties.                                                             *)
(***************************************************************************)

\* C1: pressing "=" on a non-empty display e that the evaluator accepts
\* appends exactly one line, e = r, at the end of the history, where r is
\* the evaluator's result rounded to 3 decimals; it sets display to r and
\* showResult to true.
C1_FinalizeAppendsRecord ==
  [][ (KeyStep("=") /\ display # <<>> /\ Accepts(display)) =>
        /\ Len(history') = Len(history) + 1
        /\ SubSeq(history', 1, Len(history)) = history
        /\ splitFirst(history'[Len(history')]) = display
        /\ ResultOf(history'[Len(history')]) = Rounded(display)
        /\ display' = Rounded(display)
        /\ showResult' = TRUE ]_vars

\* C1 witness: "=" was pressed on "1+3": display is "4", the result is
\* shown and the history ends with the line "1+3 = 4"
C1_Witness ==
  /\ Pressed("=")
  /\ before.display = <<"1", "+", "3">>
  /\ display = <<"4">>
  /\ showResult
  /\ history = <<<<"1", "+", "3", " ", "=", " ", "4">>>>

\* C2: pressing "=" on a non-empty display that the evaluator rejects sets
\* display to "Error", leaves the history unchanged and leaves showResult
\* false; the handler completes (the step exists) from every state.
C2_FinalizeFailure ==
  [][ (KeyStep("=") /\ display # <<>> /\ ~Accepts(display)) =>
        /\ display' = ErrorText
        /\ history' = history
        /\ showResult' = FALSE ]_vars

\* C2 witness: after a calculation, "=" was pressed on the incomplete "3-":
\* display is "Error" and the history still holds its one line
C2_Witness ==
  /\ Pressed("=")
  /\ before.display = <<"3", "-">>
  /\ display = ErrorText
  /\ ~showResult
  /\ history = <<<<"3", " ", "=", " ", "3">>>>

\* C3 as claimed: in every reachable state display does not start with a
\* binary operator, holds no two consecutive binary operators and no two
\* consecutive decimal points.
C3_AsClaimed ==
  /\ ~StartsWithOperator(display)
  /\ ~ConsecutiveOperators(display)
  /\ ~ConsecutivePoints(display)

\* C3 amended: in every reachable state display holds no two consecutive
\* binary operators and no two consecutive decimal points, and it starts
\* with a binary operator only if that operator is the "-" of a negative
\* result that "=" has produced (a line of the history has a result that
\* starts with "-").
C3_ExpressionShape ==
  /\ ~ConsecutiveOperators(display)
  /\ ~ConsecutivePoints(display)
  /\ StartsWithOperator(display) =>
       /\ display[1] = "-"
       /\ \E i \in 1..Len(history) : ResultOf(history[i])[1] = "-"

\* C3 witness: "=" on "1-3" has left the negative result "-2", and an
\* operator key pressed after it was appended
C3_Witness ==
  /\ display = <<"-", "2", "/">>
  /\ Pressed("/")
  /\ history = <<<<"1", "-", "3", " ", "=", " ", "-", "2">>>>

RECURSIVE LabelsText(_)
\* the labels of the keys of a log, concatenated
LabelsText(log) ==
  IF log = <<>> THEN <<>>
  ELSE LabelsText(SubSeq(log, 1, Len(log) - 1)) \o LabelChars(log[Len(log)])

\* the text a key stands for: its label, followed by "(" for a function
TypedText(k) ==
  IF k \in {"sin", "cos", "tan", "sqrt"} THEN LabelChars(k) \o <<"(">>
  ELSE LabelChars(k)

RECURSIVE TypedTexts(_)
TypedTexts(log) ==
  IF log = <<>> THEN <<>>
  ELSE TypedTexts(SubSeq(log, 1, Len(log) - 1)) \o TypedText(log[Len(log)])

\* C4 as claimed: after any sequence of key presses without "=", display
\* is the concatenation of the keys that were not rejected, in order.
C4_AsClaimed == display = LabelsText(keylog)

\* C4 amended: after any sequence of key presses that holds none of "=",
\* AC and C, display is the concatenation, in order, of the text of the
\* keys that were not rejected: the label of the key, followed by "(" for
\* a function key.
C4_ConcatenationOfAcceptedKeys ==
  (\A i \in 1..Len(keylog) : keylog[i] \notin {"AC", "C"}) =>
    display = TypedTexts(keylog)

\* C4 witness: four keys were pressed, one of them rejected, and display is
\* the text of the other three, a function key among them
C4_Witness ==
  /\ events = 4
  /\ keylog = <<"1", "/", "sin">>
  /\ display = <<"1", "/", "s", "i", "n", "(">>

\* C5 as claimed: a key pressed while the result is shown leaves
\* showResult false, whichever key it is, and showResult becomes true only
\* by a successful "=" pressed while it was false.
C5_AsClaimed ==
  [][ /\ (AnyKeyStep /\ showResult) => ~showResult'
      /\ (events' = events + 1 /\ showResult') =>
           (KeyStep("=") /\ ~showResult /\ display # <<>> /\ Accepts(display))
    ]_vars

\* C5 amended: a key other than "=" pressed while the result is shown
\* leaves showResult false; "=" pressed while the result is shown
\* calculates the shown result again and leaves showResult true;
\* showResult is true after an event only if the event is a successful "=".
C5_ResultModeLeftByOtherKeys ==
  [][ /\ (AnyKeyStep /\ showResult /\ lastEvent'.key # "=") => ~showResult'
      /\ (KeyStep("=") /\ showResult) =>
           (showResult' /\ display' = display /\ Len(history') = Len(history) + 1)
      /\ (events' = events + 1 /\ showResult') =>
           (KeyStep("=") /\ display # <<>> /\ Accepts(display))
    ]_vars

\* C5 witness: "=" was pressed twice on "3", the second time while the
\* result was shown, and the operator pressed next went back to editing
C5_Witness ==
  /\ Pressed("-")
  /\ before = [display |-> <<"3">>, showResult |-> TRUE]
  /\ Len(history) = 2
  /\ display = <<"3", "-">>
  /\ ~showResult

C7_HistoryAppendOnly ==
  [][ \/ history' = history
      \/ /\ KeyStep("=") /\ display # <<>> /\ Accepts(display)
         /\ Len(history') = Len(history) + 1
         /\ SubSeq(history', 1, Len(history)) = history ]_vars

\* C7 witness: AC was pressed with two lines in the history, which are
\* still there
C7_Witness ==
  /\ Pressed("AC")
  /\ history = <<<<"3", " ", "=", " ", "3">>, <<"3", " ", "=", " ", "3">>>>

\* C8: a click on a history line, from any state, sets display to the
\* expression whose calculation wrote that line, sets showResult to false
\* and leaves the history as it was.
C8_SelectRestoresExpression ==
  [][ \A i \in 1..Len(history) :
        SelectStep(i) =>
          /\ display' = finalized[i]
          /\ showResult' = FALSE
          /\ history' = history ]_vars

\* C8 witness: the line "1-3 = -2" was clicked while its result was shown,
\* and display is "1-3"
C8_Witness ==
  /\ lastEvent = [kind |-> "select", key |-> "", index |-> 1]
  /\ before = [display |-> <<"-", "2">>, showResult |-> TRUE]
  /\ display = <<"1", "-", "3">>
  /\ ~showResult
  /\ history = <<<<"1", "-", "3", " ", "=", " ", "-", "2">>>>

\* an incomplete expression: a complete one followed by a binary operator
Incomplete(e) ==
  e # <<>> /\ e[Len(e)] \in BinaryOperators /\ Accepts(slice(e))

\* C9: while typing, a live value is shown below the expression even if
\* the expression is incomplete: partialResult is not empty when display is
\* an incomplete expression such as "50+" and no result is shown.
C9_PartialShownWhenIncomplete ==
  (~showResult /\ Incomplete(display)) => partialResult # <<>>

\* C10: pressing AC, from any state, leaves display empty and showResult
\* false, and leaves the history unchanged.
C10_AllClear ==
  [][ KeyStep("AC") =>
        /\ display' = <<>>
        /\ showResult' = FALSE
        /\ history' = history ]_vars

\* C10 witness: AC was pressed while the result "-2" was shown: display is
\* empty and the history keeps its line
C10_Witness ==
  /\ Pressed("AC")
  /\ before = [display |-> <<"-", "2">>, showResult |-> TRUE]
  /\ display = <<>>
  /\ ~showResult
  /\ Len(history) = 1

\* e without its last character, said without slice: one character
\* shorter and equal to e position by position
DropsLast(e, f) ==
  /\ Len(f) = Len(e) - 1
  /\ \A i \in 1..Len(f) : f[i] = e[i]

\* C11: pressing C removes exactly the last character of display, whatever
\* display holds (typed text, the "sin(" of a function key, a shown result,
\* "Error"); on an empty display it changes nothing; the history is
\* unchanged.
C11_BackspaceOneCharacter ==
  [][ KeyStep("C") =>
        /\ display # <<>> => DropsLast(display, display')
        /\ display = <<>> =>
             (display' = <<>> /\ showResult' = showResult
              /\ partialResult' = partialResult)
        /\ history' = history ]_vars

\* C11 witness: C was pressed after the function key had appended "sin("
\* to "3-", and display is "3-sin"
C11_Witness ==
  /\ Pressed("C")
  /\ before.display = <<"3", "-", "s", "i", "n", "(">>
  /\ display = <<"3", "-", "s", "i", "n">>

\* C12: pressing "=" while display is empty changes nothing: display stays
\* empty (no "Error"), showResult, partialResult and the history are
\* unchanged.
C12_EqualsOnEmpty ==
  [][ (KeyStep("=") /\ display = <<>>) =>
        /\ display' = <<>>
        /\ showResult' = showResult
        /\ partialResult' = partialResult
        /\ history' = history ]_vars

\* C12 witness: "=" was pressed on the display AC had emptied after a
\* calculation, and display is still empty with the history line kept
C12_Witness ==
  /\ Pressed("=")
  /\ before = [display |-> <<>>, showResult |-> FALSE]
  /\ display = <<>>
  /\ ~showResult
  /\ partialResult = <<>>
  /\ history = <<<<"3", " ", "=", " ", "3">>>>

\* ---- decimal strings, read independently of the evaluator ----

RECURSIVE NatOf(_)
NatOf(ds) ==
  IF ds = <<>> THEN 0
  ELSE 10 * NatOf(SubSeq(ds, 1, Len(ds) - 1)) + DigitVal(ds[Len(ds)])

Unsigned(str) ==
  IF str # <<>> /\ str[1] = "-" THEN SubSeq(str, 2, Len(str)) ELSE str

\* the position of the decimal point of str, Len(str) + 1 without one
PointOf(str) ==
  IF \E i \in 1..Len(str) : str[i] = "."
  THEN CHOOSE i \in 1..Len(str) :
         str[i] = "." /\ \A j \in 1..(i - 1) : str[j] # "."
  ELSE Len(str) + 1

WholeDigits(str) == SubSeq(Unsigned(str), 1, PointOf(Unsigned(str)) - 1)

Decimals(str) ==
  SubSeq(Unsigned(str), PointOf(Unsigned(str)) + 1, Len(Unsigned(str)))

\* str is digits, optionally signed, optionally followed by a point and
\* one to three decimals of which the last is not 0
ShortDecimal(str) ==
  /\ WholeDigits(str) # <<>>
  /\ \A i \in 1..Len(WholeDigits(str)) : WholeDigits(str)[i] \in Digits
  /\ \A i \in 1..Len(Decimals(str)) : Decimals(str)[i] \in Digits
  /\ Len(Decimals(str)) <= 3
  /\ PointOf(Unsigned(str)) <= Len(Unsigned(str)) =>
       /\ Decimals(str) # <<>>
       /\ Decimals(str)[Len(Decimals(str))] # "0"

\* the value of a short decimal in thousandths
ThousandthsOf(str) ==
  LET f == Decimals(str)
      scale == IF Len(f) = 0 THEN 1000 ELSE IF Len(f) = 1 THEN 100
               ELSE IF Len(f) = 2 THEN 10 ELSE 1
      m == 1000 * NatOf(WholeDigits(str)) + scale * NatOf(f)
  IN  IF str[1] = "-" THEN -m ELSE m

\* str is the finite number v rounded to thousandths: a short decimal no
\* further than half a thousandth from v
RoundedTo(str, v) ==
  /\ ShortDecimal(str)
  /\ 2 * Abs(ThousandthsOf(str) * v.d - 1000 * v.n) <= v.d

\* C13: the string stored by a finalization (display and the history line's
\* result) and by the partial evaluation (partialResult) is the evaluator's
\* finite result rounded to at most three decimals, trailing zeros and a
\* bare decimal point dropped: 10/3 is stored as 3.333 and an integer
\* without decimals.
C13_StoredValueRounded ==
  /\ (~showResult /\ partialResult # <<>>
        /\ evaluate(display).k = "num")
       => RoundedTo(partialResult, evaluate(display))
  /\ (showResult /\ evaluate(finalized[Len(finalized)]).k = "num")
       => /\ RoundedTo(display, evaluate(finalized[Len(finalized)]))
          /\ ResultOf(history[Len(history)]) = display
  /\ (display = <<"1", "0", "/", "3">> /\ ~showResult)
       => partialResult = <<"3", ".", "3", "3", "3">>
  /\ (display = <<"3", "0", "/", "3">> /\ ~showResult)
       => partialResult = <<"1", "0">>

\* C13 witness: "=" finalized 10/3 and display is 3.333
C13_Witness ==
  /\ Pressed("=")
  /\ before.display = <<"1", "0", "/", "3">>
  /\ showResult
  /\ display = <<"3", ".", "3", "3", "3">>

\* C14: an operator pressed while display is empty or ends with an operator,
\* and "." pressed while display ends with ".", change nothing: display (so
\* no "Error"), partialResult and the history stay as they were; in every
\* other case the operator or "." becomes the last character of display.
C14_RejectedKeyIsSilent ==
  [][ \A k \in (BinaryOperators \cup {"."}) \cap Keys :
        KeyStep(k) =>
          IF \/ k \in BinaryOperators
                /\ (display = <<>>
                    \/ display[Len(display)] \in BinaryOperators)
             \/ k = "." /\ display # <<>> /\ display[Len(display)] = "."
          THEN /\ display' = display
               /\ partialResult' = partialResult
               /\ history' = history
          ELSE display' = Append(display, k) ]_vars

\* C14 witness: "/" was pressed on "1+" and display is still "1+" with the
\* partial result it had (none)
C14_Witness ==
  /\ Pressed("/")
  /\ before.display = <<"1", "+">>
  /\ display = <<"1", "+">>
  /\ partialResult = <<>>

\* C15: while a result r is shown, an operator key yields r followed by the
\* operator (it is never rejected), a digit key yields r followed by the
\* digit, and the result is no longer marked as shown.
C15_ContinueFromResult ==
  [][ \A k \in (BinaryOperators \cup Digits) \cap Keys :
        (showResult /\ KeyStep(k)) =>
          /\ display' = Append(display, k)
          /\ ~showResult' ]_vars

\* C15 witness: "+" was pressed on the shown result 0.333 of 1/3 and
\* display is "0.333+"
C15_Witness ==
  /\ Pressed("+")
  /\ before = [display |-> <<"0", ".", "3", "3", "3">>, showResult |-> TRUE]
  /\ Len(history) = 1
  /\ display = <<"0", ".", "3", "3", "3", "+">>
  /\ ~showResult

\* C16: whenever a result is shown, the history is not empty, display is
\* not empty, and display is the result part of the last history line.
C16_ShownResultIsLastRecord ==
  showResult =>
    /\ history # <<>>
    /\ display # <<>>
    /\ display = ResultOf(history[Len(history)])

\* C16 witness: a second calculation's result is shown and differs from
\* the first line's result
C16_Witness ==
  /\ showResult
  /\ Len(history) = 2
  /\ ResultOf(history[1]) # ResultOf(history[2])
  /\ display = ResultOf(history[2])

\* C17: the partial result and the finalization agree: when no result is
\* shown and display is not empty, "=" with a partial result p sets display
\* to p, marks it as shown and appends a line whose result is p; "=" without
\* a partial result sets display to "Error" and appends nothing.
C17_PreviewAgreesWithFinalize ==
  [][ (KeyStep("=") /\ ~showResult /\ display # <<>>) =>
        IF partialResult # <<>>
        THEN /\ display' = partialResult
             /\ showResult'
             /\ Len(history') = Len(history) + 1
             /\ SubSeq(history', 1, Len(history)) = history
             /\ ResultOf(history'[Len(history')]) = partialResult
        ELSE /\ display' = ErrorText
             /\ ~showResult'
             /\ history' = history ]_vars

\* C17 witness: "=" was pressed on 1/3 whose partial result was 0.333, and
\* 0.333 is shown and recorded
C17_Witness ==
  /\ Pressed("=")
  /\ before = [display |-> <<"1", "/", "3">>, showResult |-> FALSE]
  /\ showResult
  /\ display = <<"0", ".", "3", "3", "3">>
  /\ ResultOf(history[Len(history)]) = <<"0", ".", "3", "3", "3">>

\* the expression part of a history line
ExpressionOf(item) == SubSeq(item, 1, IndexOfSeparator(item, 1) - 1)

\* C18: "=" pressed right after a click on a history line (e, r) succeeds:
\* display becomes r, shown as a result, and the history gains a line equal
\* to the clicked one; no history line has "Error" as its expression or as
\* its result.
C18_SelectThenFinalize ==
  [][ /\ \A i \in 1..Len(history) :
           (lastEvent = [kind |-> "select", key |-> "", index |-> i]
            /\ KeyStep("="))
             => /\ display' = ResultOf(history[i])
                /\ showResult'
                /\ history' = Append(history, history[i])
      /\ \A i \in 1..Len(history') :
           /\ ExpressionOf(history'[i]) # ErrorText
           /\ ResultOf(history'[i]) # ErrorText ]_vars

\* C18 witness: 03 was finalized to 3, its line clicked and "=" pressed:
\* 3 is shown and the history holds the line twice
C18_Witness ==
  /\ Pressed("=")
  /\ events = 5
  /\ before = [display |-> <<"0", "3">>, showResult |-> FALSE]
  /\ history = << <<"0", "3", " ", "=", " ", "3">>,
                  <<"0", "3", " ", "=", " ", "3">> >>
  /\ display = <<"3">>
  /\ showResult

\* e begins with the text "Error"
HasErrorPrefix(e) ==
  Len(e) >= Len(ErrorText) /\ SubSeq(e, 1, Len(ErrorText)) = ErrorText

\* the keys that append text: every key but AC, C and "="
TextKeys == Keys \ {"AC", "C", "="}

\* C19: "Error" is text of display like any other: a digit, operator, ".",
\* parenthesis or function key pressed on it appends its text to "Error";
\* "=" pressed on it gives "Error" again and leaves the history alone; a
\* display that begins with "Error" is refused by the evaluator and keeps
\* beginning with "Error" under every key but AC and C.
C19_ErrorIsOrdinaryText ==
  [][ /\ \A k \in TextKeys :
           (display = ErrorText /\ KeyStep(k))
             => display' = ErrorText \o TypedText(k)
      /\ (display = ErrorText /\ KeyStep("="))
           => (display' = ErrorText /\ ~showResult' /\ history' = history)
      /\ \A k \in Keys \ {"AC", "C"} :
           (HasErrorPrefix(display) /\ KeyStep(k))
             => (HasErrorPrefix(display') /\ ~showResult'
                 /\ history' = history)
      /\ HasErrorPrefix(display') => ~Accepts(display') ]_vars

\* C19 witness: after 3 was finalized, "3+" failed; "0" was pressed on
\* "Error" and display is "Error0"
C19_Witness ==
  /\ Pressed("0")
  /\ before = [display |-> ErrorText, showResult |-> FALSE]
  /\ display = <<"E", "r", "r", "o", "r", "0">>
  /\ Len(history) = 1
  /\ partialResult = <<>>

====
